---- MODULE Spec2Model ----
(***************************************************************************)
(* MVTecDataset (datasets/mvtec.py): the index built over an MVTec-style   *)
(* directory tree, its stratified subsetting and few-shot resampling, and  *)
(* the samples __getitem__ returns.                                        *)
(*                                                                         *)
(* Encodings.  A path is the sequence of its components (os.path.join      *)
(* appends components, str.split('/') gives them back).  Python's None is  *)
(* the empty sequence; the optional classname is <<>> or <<name>>.  A      *)
(* tensor is modelled by its shape and by where its data came from.        *)
(***************************************************************************)
EXTENDS Integers, Sequences, FiniteSets, TLC

VARIABLES fs, rng, args, datasets, out

vars == <<fs, rng, args, datasets, out>>

-----------------------------------------------------------------------------
(* Bounds of the explored inputs.                                          *)

MaxFiles == 2

MaxDivide == 3

MaxShot == 2

-----------------------------------------------------------------------------
(* Module constants of mvtec.py.                                           *)

None == <<>>

_CLASSNAMES ==
    <<"bottle", "cable", "capsule", "carpet", "grid",
      "hazelnut", "leather", "metal_nut", "pill", "screw",
      "tile", "toothbrush", "transistor", "wood", "zipper">>

DatasetSplit == [TRAIN |-> "train", VAL |-> "val", TEST |-> "test"]

-----------------------------------------------------------------------------
(* Strings are compared as Python compares them: code point by code point. *)

ord(s) ==
    CASE
       s = "bottle" -> <<98, 111, 116, 116, 108, 101>>
    [] s = "cable" -> <<99, 97, 98, 108, 101>>
    [] s = "capsule" -> <<99, 97, 112, 115, 117, 108, 101>>
    [] s = "carpet" -> <<99, 97, 114, 112, 101, 116>>
    [] s = "grid" -> <<103, 114, 105, 100>>
    [] s = "hazelnut" -> <<104, 97, 122, 101, 108, 110, 117, 116>>
    [] s = "leather" -> <<108, 101, 97, 116, 104, 101, 114>>
    [] s = "metal_nut" -> <<109, 101, 116, 97, 108, 95, 110, 117, 116>>
    [] s = "pill" -> <<112, 105, 108, 108>>
    [] s = "screw" -> <<115, 99, 114, 101, 119>>
    [] s = "tile" -> <<116, 105, 108, 101>>
    [] s = "toothbrush" -> <<116, 111, 111, 116, 104, 98, 114, 117, 115, 104>>
    [] s = "transistor" -> <<116, 114, 97, 110, 115, 105, 115, 116, 111, 114>>
    [] s = "wood" -> <<119, 111, 111, 100>>
    [] s = "zipper" -> <<122, 105, 112, 112, 101, 114>>
    [] s = "toy" -> <<116, 111, 121>>
    [] s = "crack" -> <<99, 114, 97, 99, 107>>
    [] s = "fail" -> <<102, 97, 105, 108>>
    [] s = "good" -> <<103, 111, 111, 100>>
    [] s = "train" -> <<116, 114, 97, 105, 110>>
    [] s = "val" -> <<118, 97, 108>>
    [] s = "test" -> <<116, 101, 115, 116>>
    [] s = "ground_truth" -> <<103, 114, 111, 117, 110, 100, 95, 116, 114, 117, 116, 104>>
    [] s = "root" -> <<114, 111, 111, 116>>
    [] s = "000.png" -> <<48, 48, 48, 46, 112, 110, 103>>
    [] s = "001.png" -> <<48, 48, 49, 46, 112, 110, 103>>
    [] s = "002.png" -> <<48, 48, 50, 46, 112, 110, 103>>
    [] s = "003.png" -> <<48, 48, 51, 46, 112, 110, 103>>
    [] s = "004.png" -> <<48, 48, 52, 46, 112, 110, 103>>
    [] s = "000_mask.png" -> <<48, 48, 48, 95, 109, 97, 115, 107, 46, 112, 110, 103>>
    [] s = "001_mask.png" -> <<48, 48, 49, 95, 109, 97, 115, 107, 46, 112, 110, 103>>
    [] s = "002_mask.png" -> <<48, 48, 50, 95, 109, 97, 115, 107, 46, 112, 110, 103>>
    [] s = "003_mask.png" -> <<48, 48, 51, 95, 109, 97, 115, 107, 46, 112, 110, 103>>
    [] s = "004_mask.png" -> <<48, 48, 52, 95, 109, 97, 115, 107, 46, 112, 110, 103>>
    [] s = "005_mask.png" -> <<48, 48, 53, 95, 109, 97, 115, 107, 46, 112, 110, 103>>

RECURSIVE code_points_less(_, _)
code_points_less(a, b) ==
    IF b = <<>> THEN FALSE
    ELSE IF a = <<>> THEN TRUE
    ELSE IF Head(a) # Head(b) THEN Head(a) < Head(b)
    ELSE code_points_less(Tail(a), Tail(b))

str_less(a, b) == code_points_less(ord(a), ord(b))

RECURSIVE insert_sorted(_, _)
insert_sorted(x, s) ==
    IF s = <<>> THEN <<x>>
    ELSE IF str_less(x, Head(s)) THEN <<x>> \o s
    ELSE <<Head(s)>> \o insert_sorted(x, Tail(s))

\* sorted in descending order
RECURSIVE sorted_descending(_)
sorted_descending(s) ==
    IF s = <<>> THEN <<>>
    ELSE LET rest == sorted_descending(Tail(s))
             before == SelectSeq(rest, LAMBDA y : str_less(Head(s), y))
             after == SelectSeq(rest, LAMBDA y : ~str_less(Head(s), y))
         IN  before \o <<Head(s)>> \o after

RECURSIVE sorted(_)
sorted(s) ==
    IF s = <<>> THEN <<>> ELSE insert_sorted(Head(s), sorted(Tail(s)))

Range(s) == {s[i] : i \in DOMAIN s}

Min(a, b) == IF a < b THEN a ELSE b

RECURSIVE concat(_)
concat(ss) ==
    IF ss = <<>> THEN <<>> ELSE Head(ss) \o concat(Tail(ss))

-----------------------------------------------------------------------------
(* The file system: fs maps every existing directory to the sequence of    *)
(* entry names os.listdir returns for it, in the order the file system     *)
(* happens to list them.                                                   *)

isdir(path) == path \in DOMAIN fs

listdir(path) == fs[path]

join(path, name) == Append(path, name)

-----------------------------------------------------------------------------
(* get_image_data                                                          *)

\* loads_mask without the test of the split
loads_mask_any_split(split, anomaly) == anomaly \notin {"good", "fail"}

\* the test of lines 144 and 164: the record gets a ground-truth mask
loads_mask(split, anomaly) ==
    split = DatasetSplit.TEST /\ anomaly \notin {"good", "fail"}

\* lines 135-141: the sorted image files of one anomaly type, as full paths
imgpaths(classpath, anomaly) ==
    LET anomaly_path == join(classpath, anomaly)
        anomaly_files == sorted(listdir(anomaly_path))
    IN  [i \in DOMAIN anomaly_files |-> join(anomaly_path, anomaly_files[i])]

\* lines 146-152: the sorted mask files of one anomaly type, as full paths
maskpaths(maskpath, anomaly) ==
    LET anomaly_mask_path == join(maskpath, anomaly)
        anomaly_mask_files == sorted(listdir(anomaly_mask_path))
    IN  [i \in DOMAIN anomaly_mask_files |->
            join(anomaly_mask_path, anomaly_mask_files[i])]

\* os.listdir raises in the scanning loop (lines 123-155) when a class
\* folder, an anomaly folder or a needed ground-truth folder does not exist
scan_raises(source, split, classnames_to_use) ==
    \E c \in Range(classnames_to_use) :
        LET classpath == source \o <<c, split>>
            maskpath == source \o <<c, "ground_truth">>
        IN  \/ ~isdir(classpath)
            \/ \E a \in Range(listdir(classpath)) :
                  \/ ~isdir(join(classpath, a))
                  \/ loads_mask(split, a) /\ ~isdir(join(maskpath, a))

\* lines 161-168 for one anomaly type: one record per image, the i-th image
\* paired with the i-th mask
data_tuples(source, split, classname, anomaly) ==
    LET classpath == source \o <<classname, split>>
        maskpath == source \o <<classname, "ground_truth">>
        images == imgpaths(classpath, anomaly)
    IN  [i \in DOMAIN images |->
            <<classname, anomaly, images[i],
              IF loads_mask(split, anomaly)
                  THEN maskpaths(maskpath, anomaly)[i]
                  ELSE None>>]

\* maskpaths_per_class[classname][anomaly][i] is out of range for some image
flatten_raises(source, split, classnames_to_use) ==
    \E c \in Range(classnames_to_use) :
        LET classpath == source \o <<c, split>>
            maskpath == source \o <<c, "ground_truth">>
        IN  \E a \in Range(listdir(classpath)) :
                /\ loads_mask(split, a)
                /\ Len(listdir(join(maskpath, a))) < Len(listdir(join(classpath, a)))

\* flatten taking the anomaly types in the order os.listdir gave them
flatten_in_listing_order(source, split, classnames_to_use) ==
    LET classes == sorted(classnames_to_use)
        of_class(c) ==
            LET anomalies == listdir(source \o <<c, split>>)
            IN  concat([j \in DOMAIN anomalies |->
                           data_tuples(source, split, c, anomalies[j])])
    IN  concat([j \in DOMAIN classes |-> of_class(classes[j])])

\* lines 157-170: classes in sorted order, anomaly types in sorted order,
\* files in sorted order
flatten(source, split, classnames_to_use) ==
    LET classes == sorted(classnames_to_use)
        of_class(c) ==
            LET anomalies == sorted(listdir(source \o <<c, split>>))
            IN  concat([j \in DOMAIN anomalies |->
                           data_tuples(source, split, c, anomalies[j])])
    IN  concat([j \in DOMAIN classes |-> of_class(classes[j])])

get_image_data(source, split, classnames_to_use) ==
    IF scan_raises(source, split, classnames_to_use)
        THEN [raised |-> "FileNotFoundError", data_to_iterate |-> <<>>]
    ELSE IF flatten_raises(source, split, classnames_to_use)
        THEN [raised |-> "IndexError", data_to_iterate |-> <<>>]
    ELSE [raised |-> "",
          data_to_iterate |-> flatten(source, split, classnames_to_use)]

-----------------------------------------------------------------------------
(* sub_datasets                                                            *)

\* full_datasets[i][2].split('/')[-2]: the folder the image file lies in
anomaly_type_of(record) == record[3][Len(record[3]) - 1]

\* the keys of id_dict in insertion order (lines 80-84): the anomaly types
\* in the order of their first record
id_dict_keys(full_datasets) ==
    LET firsts == {i \in DOMAIN full_datasets :
                      \A j \in 1..(i - 1) :
                          anomaly_type_of(full_datasets[j])
                              # anomaly_type_of(full_datasets[i])}
        nth(g) == CHOOSE i \in firsts : Cardinality({j \in firsts : j <= i}) = g
    IN  [g \in 1..Cardinality(firsts) |-> anomaly_type_of(full_datasets[nth(g)])]

\* id_dict[k]: the positions (0-based) of the records of anomaly type k
id_dict(full_datasets, k) ==
    LET hit(i) == anomaly_type_of(full_datasets[i]) = k
        RECURSIVE collect(_)
        collect(i) ==
            IF i > Len(full_datasets) THEN <<>>
            ELSE (IF hit(i) THEN <<i - 1>> ELSE <<>>) \o collect(i + 1)
    IN  collect(1)

\* random.shuffle after random.seed(random_seed): the g-th shuffle of the
\* run rearranges its list by the g-th permutation the seeded generator gives
shuffle(type_id_list, random_seed, g) ==
    [j \in DOMAIN type_id_list |-> type_id_list[rng.shuffle[random_seed][g][j]]]

\* devide_list with slices one element too short
devide_list_short(type_id_list, divide_num) ==
    LET n == Len(type_id_list)
        count == (n + divide_num - 1) \div divide_num
    IN  [c \in 1..count |->
            SubSeq(type_id_list, (c - 1) * divide_num + 1,
                   Min(c * divide_num - 1, n))]

\* [type_id_list[i:i+divide_num] for i in range(0, len(type_id_list), divide_num)]
devide_list(type_id_list, divide_num) ==
    LET n == Len(type_id_list)
        count == (n + divide_num - 1) \div divide_num
    IN  [c \in 1..count |->
            SubSeq(type_id_list, (c - 1) * divide_num + 1, Min(c * divide_num, n))]

\* sub_list taking the first element of every chunk it keeps
RECURSIVE sub_list_first(_, _)
sub_list_first(chunks, divide_iter) ==
    IF chunks = <<>> THEN <<>>
    ELSE (IF Len(Head(chunks)) > divide_iter
              THEN <<Head(chunks)[1]>> ELSE <<>>)
         \o sub_list_first(Tail(chunks), divide_iter)

\* [devide_list[i][divide_iter] for i in ... if len(devide_list[i]) > divide_iter]
RECURSIVE sub_list(_, _)
sub_list(chunks, divide_iter) ==
    IF chunks = <<>> THEN <<>>
    ELSE (IF Len(Head(chunks)) > divide_iter
              THEN <<Head(chunks)[divide_iter + 1]>> ELSE <<>>)
         \o sub_list(Tail(chunks), divide_iter)

sub_id_list(full_datasets, divide_num, divide_iter, random_seed) ==
    LET keys == id_dict_keys(full_datasets)
    IN  concat([g \in DOMAIN keys |->
                   sub_list(devide_list(shuffle(id_dict(full_datasets, keys[g]),
                                                random_seed, g),
                                        divide_num),
                            divide_iter)])

sub_datasets(full_datasets, divide_num, divide_iter, random_seed) ==
    IF divide_num = 0 THEN full_datasets
    ELSE LET ids == sub_id_list(full_datasets, divide_num, divide_iter, random_seed)
         IN  [j \in DOMAIN ids |-> full_datasets[ids[j] + 1]]

-----------------------------------------------------------------------------
(* few-shot resampling, lines 45-52                                        *)

\* torch.randint(0, high, (k_shot,)) after torch.manual_seed(random_seed):
\* each element is the next raw value of the seeded generator, reduced
\* modulo the range
randint(high, k_shot, random_seed) ==
    [j \in 1..k_shot |-> rng.randint[random_seed][j] % high]

\* few_shot resampling also when k_shot equals the length of the Index
few_shot_at_length(data_to_iterate, k_shot, random_seed) ==
    IF k_shot > 0
        THEN IF k_shot > Len(data_to_iterate)
                 THEN data_to_iterate
                 ELSE LET indices == randint(Len(data_to_iterate), k_shot, random_seed)
                      IN  [j \in DOMAIN indices |-> data_to_iterate[indices[j] + 1]]
        ELSE data_to_iterate

few_shot(data_to_iterate, k_shot, random_seed) ==
    IF k_shot > 0
        THEN IF k_shot >= Len(data_to_iterate)
                 THEN data_to_iterate
                 ELSE LET indices == randint(Len(data_to_iterate), k_shot, random_seed)
                      IN  [j \in DOMAIN indices |-> data_to_iterate[indices[j] + 1]]
        ELSE data_to_iterate

-----------------------------------------------------------------------------
(* Images and transforms.  A PIL image is its band count, its size (None   *)
(* until a transform fixes it) and the file it was read from; a tensor is  *)
(* its shape and the file its data came from (None: no file, all zeros).   *)

PIL_Image_open(path, bands) == [bands |-> bands, size |-> None, data |-> path]

Resize(size) == [op |-> "Resize", size |-> size]

CenterCrop(size) == [op |-> "CenterCrop", size |-> size]

ToTensor == [op |-> "ToTensor", size |-> None]

Normalize == [op |-> "Normalize", size |-> None]

\* one step of a pipeline applied to an image
transform(step, x) ==
    CASE step.op = "Resize" -> [x EXCEPT !.size = step.size]
      [] step.op = "CenterCrop" -> [x EXCEPT !.size = <<step.size, step.size>>]
      [] OTHER -> x

\* transforms.Compose(steps)(image): the steps in order, the result a tensor
RECURSIVE Compose(_, _)
Compose(steps, x) ==
    IF steps = <<>> THEN [shape |-> <<x.bands>> \o x.size, data |-> x.data]
    ELSE Compose(Tail(steps), transform(Head(steps), x))

\* torch.zeros([1, *image.size()[1:]])
zeros_like_image(image) ==
    [shape |-> <<1>> \o Tail(image.shape), data |-> None]

-----------------------------------------------------------------------------
(* __init__, lines 21-71: the constructed object, or the error raised      *)

\* lines 53-62
transform_img_of(resize, imagesize, clip_transformer) ==
    IF clip_transformer = None
        THEN <<Resize(<<resize, resize>>), CenterCrop(imagesize), ToTensor, Normalize>>
        ELSE clip_transformer

\* lines 64-69
transform_mask_of(resize, imagesize) ==
    <<Resize(<<resize, resize>>), CenterCrop(imagesize), ToTensor>>

\* lines 41-43: the subsetting step of the constructor
subset_step(data_to_iterate, divide_num, divide_iter, random_seed) ==
    IF divide_num > 1
        THEN sub_datasets(data_to_iterate, divide_num, divide_iter, random_seed)
        ELSE data_to_iterate

MVTecDataset(source, classname, resize, imagesize, split, clip_transformer, k_shot, random_seed, divide_num, divide_iter) ==
    LET classnames_to_use == IF classname # None THEN classname ELSE _CLASSNAMES
        scanned == get_image_data(source, split, classnames_to_use)
        subset == subset_step(scanned.data_to_iterate, divide_num, divide_iter,
                              random_seed)
    IN  [raised |-> scanned.raised,
         self |->
            [source |-> source,
             split |-> split,
             classnames_to_use |-> classnames_to_use,
             data_to_iterate |->
                 IF scanned.raised # "" THEN <<>>
                 ELSE few_shot(subset, k_shot, random_seed),
             transform_img |-> transform_img_of(resize, imagesize, clip_transformer),
             transform_mask |-> transform_mask_of(resize, imagesize),
             imagesize |-> <<3, imagesize, imagesize>>]]

-----------------------------------------------------------------------------
(* __getitem__ and __len__                                                 *)

\* getitem with is_anomaly taken from the presence of a mask path
getitem_flag_from_mask(self, idx) ==
    LET record == self.data_to_iterate[idx + 1]
        image == Compose(self.transform_img, PIL_Image_open(record[3], 3))
    IN  [image |-> image,
         mask |-> IF self.split = DatasetSplit.TEST /\ record[4] # None
                      THEN Compose(self.transform_mask, PIL_Image_open(record[4], 1))
                      ELSE zeros_like_image(image),
         is_anomaly |-> IF record[4] # None THEN 1 ELSE 0,
         image_path |-> record[3]]

\* lines 97-114; idx counts from 0
getitem(self, idx) ==
    LET record == self.data_to_iterate[idx + 1]
        anomaly == record[2]
        image_path == record[3]
        mask_path == record[4]
        image == Compose(self.transform_img, PIL_Image_open(image_path, 3))
        mask == IF self.split = DatasetSplit.TEST /\ mask_path # None
                    THEN Compose(self.transform_mask, PIL_Image_open(mask_path, 1))
                    ELSE zeros_like_image(image)
    IN  [image |-> image,
         mask |-> mask,
         is_anomaly |-> IF anomaly # "good" THEN 1 ELSE 0,
         image_path |-> image_path]

\* lines 116-117
len(self) == Len(self.data_to_iterate)

-----------------------------------------------------------------------------
(* The explored directory trees.                                           *)

AnomalyTypes == <<"crack", "fail", "good">>

image_names == <<"000.png", "001.png", "002.png", "003.png", "004.png">>

mask_names ==
    <<"000_mask.png", "001_mask.png", "002_mask.png", "003_mask.png",
      "004_mask.png", "005_mask.png">>

Splits == {DatasetSplit.TRAIN, DatasetSplit.VAL, DatasetSplit.TEST}

Reverse(s) == [i \in DOMAIN s |-> s[Len(s) + 1 - i]]

\* the order a file system lists entries in: ascending or descending
listing(names, rev) == IF rev THEN Reverse(names) ELSE names

\* a folder count table from <<class, anomaly type, count>> entries; a
\* negative count stands for "no such folder"
DirCounts(entries) ==
    LET present == {e \in entries : e[3] >= 0}
    IN  [p \in {<<e[1], e[2]>> : e \in present} |->
            (CHOOSE e \in present : <<e[1], e[2]>> = p)[3]]

\* the tree under source: a folder per class and split, under every split
\* img[c, t] image files in <split>/t, and gt[c, t] mask files in
\* ground_truth/t
MakeFs(source, classes, img, gt, rev) ==
    LET n == Len(source)
        dirs == {source \o <<c, sp>> : c \in classes, sp \in Splits}
                \cup {source \o <<p[1], sp, p[2]>> : p \in DOMAIN img, sp \in Splits}
                \cup {source \o <<p[1], "ground_truth", p[2]>> : p \in DOMAIN gt}
        entries(d) ==
            IF Len(d) = n + 2
                THEN listing(SelectSeq(AnomalyTypes,
                                       LAMBDA t : <<d[n + 1], t>> \in DOMAIN img), rev)
            ELSE IF d[n + 2] = "ground_truth"
                THEN listing(SubSeq(mask_names, 1, gt[<<d[n + 1], d[n + 3]>>]), rev)
            ELSE listing(SubSeq(image_names, 1, img[<<d[n + 1], d[n + 3]>>]), rev)
        RECURSIVE tree(_)
        tree(ds) ==
            IF ds = {} THEN <<>>
            ELSE LET d == CHOOSE x \in ds : TRUE
                 IN  (d :> entries(d)) @@ tree(ds \ {d})
    IN  tree(dirs)

\* all sequences taking their i-th element from sets[i]
RECURSIVE SeqProduct(_)
SeqProduct(sets) ==
    IF sets = <<>> THEN {<<>>}
    ELSE {<<x>> \o rest : x \in Head(sets), rest \in SeqProduct(Tail(sets))}

Permutations_of(n) ==
    {f \in [1..n -> 1..n] : \A i, j \in 1..n : f[i] = f[j] => i = j}

\* what a seeded generator can turn out: one permutation per shuffled list
\* (every permutation, or only the reversal), and k_shot raw values
Generators(group_sizes, all_shuffles, k_shot, raw_values, random_seed) ==
    LET shuffles(n) == IF all_shuffles THEN Permutations_of(n)
                       ELSE {[i \in 1..n |-> n + 1 - i]}
    IN  {[shuffle |-> [sd \in {random_seed} |-> sh],
          randint |-> [sd \in {random_seed} |-> raw]] :
            sh \in SeqProduct([g \in DOMAIN group_sizes |-> shuffles(group_sizes[g])]),
            raw \in [1..k_shot -> raw_values]}

\* the index get_image_data builds for the arguments a (empty when it raises)
full_index(a) ==
    get_image_data(a.source, a.split,
                   IF a.classname # None THEN a.classname ELSE _CLASSNAMES).data_to_iterate

\* the sizes of the lists sub_datasets shuffles, in the order it shuffles them
group_sizes(full_datasets) ==
    [g \in DOMAIN id_dict_keys(full_datasets) |->
        Len(id_dict(full_datasets, id_dict_keys(full_datasets)[g]))]

default_args ==
    [source |-> <<"root">>, classname |-> None, resize |-> 256, imagesize |-> 224,
     split |-> DatasetSplit.TRAIN, clip_transformer |-> None, k_shot |-> 0,
     random_seed |-> 42, divide_num |-> 1]

\* the start of a run: a tree, the constructor arguments the caller will
\* pass (all but divide_iter), and the outcome of the seeded generators
Start(trees, arguments, all_shuffles, raw_values) ==
    /\ fs \in trees
    /\ args \in arguments
    /\ \E full \in {full_index(args)} :
           \E sizes \in {group_sizes(full)} :
               rng \in Generators(sizes, all_shuffles, args.k_shot, raw_values,
                                  args.random_seed)
    /\ datasets = <<>>
    /\ out = [op |-> ""]

-----------------------------------------------------------------------------
(* Trees and arguments of the general specification.                       *)

\* the trees whose bottle class has bc crack images: the masks of
\* bottle/crack are missing, one fewer, as many, or one more than the images
TreesWith(bc) ==
    {MakeFs(<<"root">>, Range(_CLASSNAMES),
            DirCounts({<<"bottle", "crack", bc>>, <<"bottle", "fail", bf>>,
                       <<"bottle", "good", bg>>, <<"cable", "crack", 1>>,
                       <<"cable", "good", 1>>}),
            DirCounts({<<"bottle", "crack", bm>>, <<"cable", "crack", 1>>}),
            rev) :
        bf \in {-1, 1}, bg \in {1, MaxFiles},
        bm \in {-1, bc - 1, bc, bc + 1}, rev \in BOOLEAN}

Trees == UNION {TreesWith(bc) : bc \in 0..MaxFiles}

Arguments ==
    {[default_args EXCEPT !.classname = c, !.split = sp, !.divide_num = n,
                          !.k_shot = k] :
        c \in {None, <<"bottle">>}, sp \in Splits, n \in {1, MaxDivide},
        k \in {0, MaxShot}}

\* every shuffle turns out as the reversal, every raw random value as 1
Init == Start(Trees, Arguments, FALSE, {1})

-----------------------------------------------------------------------------
(* The operations.  The caller builds datasets over the same tree with the *)
(* same arguments and divide_iter = 0, 1, ..., and reads the built ones.   *)

__init__ ==
    /\ Len(datasets) <= MaxDivide
    /\ LET built == MVTecDataset(args.source, args.classname, args.resize,
                                 args.imagesize, args.split, args.clip_transformer,
                                 args.k_shot, args.random_seed, args.divide_num,
                                 Len(datasets))
       IN  /\ datasets' = IF built.raised = "" THEN Append(datasets, built.self)
                          ELSE datasets
           /\ out' = [op |-> "__init__", raised |-> built.raised]
    /\ UNCHANGED <<fs, rng, args>>

\* __getitem__ taking the record out of the Index it reads
getitem_consuming ==
    \E d \in DOMAIN datasets :
        \E idx \in 0..(Len(datasets[d].data_to_iterate) - 1) :
            /\ out' = [op |-> "__getitem__", ds |-> d, idx |-> idx,
                       value |-> getitem(datasets[d], idx)]
            /\ datasets' =
                   [datasets EXCEPT ![d].data_to_iterate =
                        SubSeq(@, 1, idx) \o SubSeq(@, idx + 2, Len(@))]
            /\ UNCHANGED <<fs, rng, args>>

__getitem__ ==
    \E d \in DOMAIN datasets :
        \E idx \in 0..(Len(datasets[d].data_to_iterate) - 1) :
            /\ out' = [op |-> "__getitem__", ds |-> d, idx |-> idx,
                       value |-> getitem(datasets[d], idx)]
            /\ UNCHANGED <<fs, rng, args, datasets>>

__len__ ==
    \E d \in DOMAIN datasets :
        /\ out' = [op |-> "__len__", ds |-> d, value |-> len(datasets[d])]
        /\ UNCHANGED <<fs, rng, args, datasets>>

Next == __init__ \/ __getitem__ \/ __len__

Spec == Init /\ [][Next]_vars

-----------------------------------------------------------------------------
(* The specification of the toy tree: root/toy/test/{good,crack} with two  *)
(* images each and two masks in root/toy/ground_truth/crack.               *)

ToyTrees ==
    {MakeFs(<<"root">>, {"toy"},
            DirCounts({<<"toy", "crack", 2>>, <<"toy", "good", 2>>}),
            DirCounts({<<"toy", "crack", 2>>}), rev) : rev \in BOOLEAN}

ToyArguments ==
    {[default_args EXCEPT !.classname = <<"toy">>, !.split = DatasetSplit.TEST,
                          !.divide_num = n, !.k_shot = k] :
        n \in 0..MaxDivide, k \in 0..MaxShot}

InitToy == Start(ToyTrees, ToyArguments, TRUE, 0..1)

SpecToy == InitToy /\ [][Next]_vars

-----------------------------------------------------------------------------
(* The specification of the pipelines: every split, the default image      *)
(* pipeline or a caller's, over the toy tree.                              *)

clip_pipeline(n_px) == <<Resize(<<n_px, n_px>>), CenterCrop(n_px), ToTensor, Normalize>>

ShapeArguments ==
    {[default_args EXCEPT !.classname = <<"toy">>, !.split = sp, !.resize = r,
                          !.imagesize = sz, !.clip_transformer = t] :
        sp \in Splits, r \in {256, 518}, sz \in {224, 518},
        t \in {None, clip_pipeline(224), clip_pipeline(518)}}

InitShape == Start(ToyTrees, ShapeArguments, FALSE, {1})

SpecShape == InitShape /\ [][Next]_vars

-----------------------------------------------------------------------------
(* The specification of the subsetting step: test split, all classes,      *)
(* matching masks, every divide_num > 1, every outcome of the shuffles.    *)

SubTrees ==
    {MakeFs(<<"root">>, Range(_CLASSNAMES),
            DirCounts({<<"bottle", "crack", bc>>, <<"bottle", "good", bg>>,
                       <<"cable", "crack", cc>>, <<"cable", "good", cc>>}),
            DirCounts({<<"bottle", "crack", bc>>, <<"cable", "crack", cc>>}),
            FALSE) :
        bc \in 0..MaxFiles, bg \in {1, MaxFiles}, cc \in {-1, 1}}

SubArguments ==
    {[default_args EXCEPT !.split = DatasetSplit.TEST, !.divide_num = n] :
        n \in 2..MaxDivide}

InitSub == Start(SubTrees, SubArguments, TRUE, {1})

SpecSub == InitSub /\ [][Next]_vars

-----------------------------------------------------------------------------
(* The specification of the few-shot step: every k_shot and every outcome  *)
(* of torch.randint, with and without subsetting.                          *)

ShotTrees ==
    {MakeFs(<<"root">>, {"bottle"},
            DirCounts({<<"bottle", "crack", bc>>, <<"bottle", "good", MaxFiles + 1>>}),
            DirCounts({<<"bottle", "crack", bc>>}), FALSE) :
        bc \in 1..MaxFiles}

ShotArguments ==
    {[default_args EXCEPT !.classname = <<"bottle">>, !.split = DatasetSplit.TEST,
                          !.divide_num = n, !.k_shot = k] :
        n \in {1, 2}, k \in 0..MaxShot}

InitShot == Start(ShotTrees, ShotArguments, FALSE, 0..(2 * MaxFiles))

SpecShot == InitShot /\ [][Next]_vars

-----------------------------------------------------------------------------
(* Properties.                                                             *)

\* the Index of the d-th built dataset (built with divide_iter = d - 1)
Index(d) == datasets[d].data_to_iterate

\* the record the last __getitem__ call was about
OutRecord == Index(out.ds)[out.idx + 1]

\* C1: in every Index, whatever the split, the classname selection, the
\* subsetting and the few-shot step, a record has a mask path if and only if
\* the split is TEST and its anomaly type is neither "good" nor "fail".
C1_MaskIffTestDefect ==
    \A d \in DOMAIN datasets :
        \A i \in DOMAIN Index(d) :
            (Index(d)[i][4] # None)
                <=> (datasets[d].split = DatasetSplit.TEST
                     /\ Index(d)[i][2] \notin {"good", "fail"})

\* a subsetted test Index holding a record with a mask, a "fail" record and a
\* "good" record
C1_Witness ==
    \E d \in DOMAIN datasets :
        /\ datasets[d].split = DatasetSplit.TEST
        /\ args.divide_num > 1
        /\ \E i, j, k \in DOMAIN Index(d) :
              /\ Index(d)[i][4] # None
              /\ Index(d)[j][2] = "fail" /\ Index(d)[j][4] = None
              /\ Index(d)[k][2] = "good"

\* C8: __getitem__ returns is_anomaly = 0 exactly when the record's anomaly
\* type is "good" and 1 otherwise; a "fail" record has no mask path and is
\* returned with is_anomaly = 1.
C8_IsAnomalyIffNotGood ==
    out.op = "__getitem__" =>
        /\ out.value.is_anomaly \in {0, 1}
        /\ (out.value.is_anomaly = 0) <=> (OutRecord[2] = "good")
        /\ OutRecord[2] = "fail" =>
              (OutRecord[4] = None /\ out.value.is_anomaly = 1)

\* a "fail" record of a test split was retrieved
C8_Witness ==
    /\ out.op = "__getitem__"
    /\ datasets[out.ds].split = DatasetSplit.TEST
    /\ OutRecord[2] = "fail"
    /\ out.value.is_anomaly = 1

\* C9: no call of __getitem__ or __len__ changes a built dataset; __len__
\* returns the length of the Index as it was built, and __getitem__(i) the
\* data of the record the Index held at i when it was built.
C9_IndexImmutable ==
    [][(out'.op \in {"__getitem__", "__len__"}) =>
          /\ datasets' = datasets
          /\ out'.op = "__len__" => out'.value = Len(Index(out'.ds))
          /\ out'.op = "__getitem__" =>
                out'.value.image_path = Index(out'.ds)[out'.idx + 1][3]]_vars

\* a record was retrieved from the first dataset after a later one was built
C9_Witness ==
    /\ out.op = "__getitem__"
    /\ Len(datasets) > 1
    /\ out.ds = 1
    /\ out.idx > 0

\* the key (classname, anomaly type, file name) of a record
SortKey(record) == <<record[1], record[2], record[3][Len(record[3])]>>

\* lexicographic "not after" on keys
KeyLeq(a, b) ==
    \/ str_less(a[1], b[1])
    \/ a[1] = b[1] /\ str_less(a[2], b[2])
    \/ a[1] = b[1] /\ a[2] = b[2] /\ ~str_less(b[3], a[3])

\* C5: without subsetting (divide_num <= 1) and without few-shot
\* (k_shot = 0) the Index is ordered by (classname, anomaly type, file name),
\* whatever order the file system lists the entries in.
C5_IndexSorted ==
    (args.divide_num <= 1 /\ args.k_shot = 0) =>
        \A d \in DOMAIN datasets :
            \A i, j \in DOMAIN Index(d) :
                i < j => KeyLeq(SortKey(Index(d)[i]), SortKey(Index(d)[j]))

\* an Index over two classes, several anomaly types and two files of a type,
\* built from a tree whose folders are listed in descending order
C5_Witness ==
    /\ args.divide_num <= 1 /\ args.k_shot = 0
    /\ fs[<<"root", "bottle", args.split>>] = <<"good", "fail", "crack">>
    /\ \E d \in DOMAIN datasets :
          \E i, j, k \in DOMAIN Index(d) :
              /\ Index(d)[i][1] = "bottle" /\ Index(d)[j][1] = "cable"
              /\ i < k /\ Index(d)[i][2] = Index(d)[k][2]
              /\ Index(d)[i][1] = Index(d)[k][1]

\* some selected class has, for an anomaly type with masks, a ground-truth
\* folder holding a different number of files than the image folder
MaskCountMismatch ==
    \E c \in Range(IF args.classname # None THEN args.classname ELSE _CLASSNAMES) :
        \E a \in Range(listdir(args.source \o <<c, DatasetSplit.TEST>>)) :
            /\ a \notin {"good", "fail"}
            /\ isdir(args.source \o <<c, "ground_truth", a>>)
            /\ Len(listdir(args.source \o <<c, "ground_truth", a>>))
                   # Len(listdir(args.source \o <<c, DatasetSplit.TEST, a>>))

\* C4: with split = TEST, construction raises and builds nothing whenever
\* the number of mask files of some anomaly type differs from the number of
\* its image files, be it fewer masks or more masks.
C4_MismatchRaises ==
    (out.op = "__init__" /\ args.split = DatasetSplit.TEST /\ MaskCountMismatch)
        => (out.raised # "" /\ datasets = <<>>)

\* C2: over the toy tree, with split = TEST, classname = "toy", no
\* subsetting and no few-shot, the Index has length 4 and the records at
\* indices 0, 1, 2, 3 give is_anomaly = [1, 1, 0, 0] ("crack" sorts before
\* "good"); the mask is loaded from the mask file for the crack records and
\* is the all-zero tensor for the good records.
C2_ToyIndex ==
    (args.divide_num <= 1 /\ args.k_shot = 0) =>
        /\ \A d \in DOMAIN datasets : Len(Index(d)) = 4
        /\ out.op = "__len__" => out.value = 4
        /\ out.op = "__getitem__" =>
              /\ out.value.is_anomaly = <<1, 1, 0, 0>>[out.idx + 1]
              /\ (out.value.mask.data # None) <=> (OutRecord[2] = "crack")
              /\ OutRecord[2] = "crack" =>
                    out.value.mask.data =
                        <<"root", "toy", "ground_truth", "crack",
                          mask_names[out.idx + 1]>>

\* C2 as stated: the records at indices 0, 1, 2, 3 give
\* is_anomaly = [0, 0, 1, 1].
C2_ToyIndexAsStated ==
    (args.divide_num <= 1 /\ args.k_shot = 0) =>
        /\ \A d \in DOMAIN datasets : Len(Index(d)) = 4
        /\ out.op = "__getitem__" =>
              /\ out.value.is_anomaly = <<0, 0, 1, 1>>[out.idx + 1]
              /\ (out.value.mask.data # None) <=> (OutRecord[2] = "crack")

\* the first record of the toy Index was retrieved with its mask, from a
\* tree that lists "good" before "crack"
C2_Witness ==
    /\ args.divide_num <= 1 /\ args.k_shot = 0
    /\ fs[<<"root", "toy", "test">>] = <<"good", "crack">>
    /\ out.op = "__getitem__" /\ out.idx = 0
    /\ out.value.mask.data # None

\* C3: __getitem__ returns an image of shape (3, imagesize, imagesize) and a
\* mask of shape (1, imagesize, imagesize), with the default pipeline or a
\* caller-supplied one, with a mask file or the zero-filled substitute.
C3_SampleShapes ==
    out.op = "__getitem__" =>
        /\ out.value.image.shape = <<3, args.imagesize, args.imagesize>>
        /\ out.value.mask.shape = <<1, args.imagesize, args.imagesize>>

\* the number of records of anomaly type t in an Index
CountOfType(index, t) == Cardinality({i \in DOMAIN index : index[i][2] = t})

\* C6: for divide_num = N > 1 and 0 <= divide_iter < N the subset holds,
\* from every anomaly-type group of size n of the full Index, exactly
\* floor(n/N) + (1 if n mod N > divide_iter else 0) records; every record is
\* a record of the full Index and none is returned twice.
C6_SubsetCounts ==
    \A d \in DOMAIN datasets :
        (args.divide_num > 1 /\ d - 1 < args.divide_num /\ args.k_shot = 0) =>
            \A full \in {full_index(args)} :
                /\ \A t \in Range(AnomalyTypes) :
                      CountOfType(Index(d), t) =
                          (CountOfType(full, t) \div args.divide_num)
                          + (IF CountOfType(full, t) % args.divide_num > d - 1
                                 THEN 1 ELSE 0)
                /\ \A i \in DOMAIN Index(d) : Index(d)[i] \in Range(full)
                /\ \A i, j \in DOMAIN Index(d) :
                      Index(d)[i] = Index(d)[j] => i = j

\* the subsets of divide_iter = 0 and 1 are built from a group of three and a
\* group of two records, after a shuffle that moved every record of a group;
\* the last, shorter chunk gave a record to divide_iter = 0 only
C6_Witness ==
    /\ args.divide_num > 1
    /\ \E g \in DOMAIN rng.shuffle[args.random_seed] :
          rng.shuffle[args.random_seed][g] = <<3, 1, 2>>
    /\ Len(datasets) = 2
    /\ CountOfType(Index(2), "crack") = 1
    /\ CountOfType(Index(2), "good") = 1
    /\ CountOfType(Index(1), "crack") + CountOfType(Index(1), "good") = 3

\* C10: for divide_num = N > 1 and k_shot = 0 the Indexes built with
\* divide_iter = 0, ..., N-1 over the same tree with the same seed are
\* pairwise disjoint, and together hold every record of the full Index
\* exactly once; a divide_iter >= N gives an empty Index.
C10_Partition ==
    (args.divide_num > 1 /\ args.k_shot = 0) =>
        \A full \in {full_index(args)} :
            LET N == args.divide_num
                built == {d \in DOMAIN datasets : d <= N}
                places(r) == {<<d, i>> \in built \X (1..Len(full)) :
                                 i <= Len(Index(d)) /\ Index(d)[i] = r}
            IN  /\ \A r \in Range(full) : Cardinality(places(r)) <= 1
                /\ Len(datasets) >= N =>
                      \A r \in Range(full) : Cardinality(places(r)) = 1
                /\ \A d \in built : Range(Index(d)) \subseteq Range(full)
                /\ \A d \in DOMAIN datasets : d - 1 >= N => Index(d) = <<>>

\* all N subsets and one with divide_iter = N are built, over a full Index of
\* at least four records of two classes
C10_Witness ==
    /\ args.divide_num > 1
    /\ Len(datasets) = args.divide_num + 1
    /\ Len(Index(1)) >= 2 /\ Len(Index(2)) >= 2
    /\ \E i, j \in DOMAIN Index(1) : Index(1)[i][1] # Index(1)[j][1]
    /\ Index(args.divide_num + 1) = <<>>

\* C7: the few-shot step acts on the result of the subsetting step: with m
\* its length and k = k_shot, if 0 < k < m the final Index has length k and
\* holds only records of the subsetted Index; otherwise it is the subsetted
\* Index, unchanged in content and order.
C7_FewShotAfterSubset ==
    \A d \in DOMAIN datasets :
        \A post \in {subset_step(full_index(args), args.divide_num, d - 1,
                                 args.random_seed)} :
            IF args.k_shot > 0 /\ args.k_shot < Len(post)
                THEN /\ Len(Index(d)) = args.k_shot
                     /\ \A i \in DOMAIN Index(d) : Index(d)[i] \in Range(post)
                ELSE Index(d) = post

\* a subsetted Index was resampled to k_shot = 2 records, twice the same one
C7_Witness ==
    /\ args.divide_num > 1 /\ args.k_shot = 2
    /\ \E d \in DOMAIN datasets :
          /\ Len(Index(d)) = 2
          /\ Index(d)[1] = Index(d)[2]

====
